---- MODULE Spec2Model ----
(***************************************************************************)
(* A model of dphon's text-reuse engine: grapheme-to-phoneme lookup,       *)
(* n-gram production, the phonetic index, seeding, the Levenshtein         *)
(* extender, the match-list reducer and the match graph.                   *)
(*                                                                         *)
(* A document is a sequence of tokens; a token is one grapheme (the "zh"   *)
(* tokenizer splits per character).  A span is a pair of bounds into a     *)
(* document; a match is a record of two document ids and two spans.        *)
(* Scores are exact rationals <<num, den>> with den > 0.                   *)
(***************************************************************************)
EXTENDS Integers, Sequences, FiniteSets, TLC

----------------------------------------------------------------------------
(* Bounds of the model *)

\* most documents of a corpus
MaxDocs == 2
\* most tokens of a corpus, all documents together
MaxTokens == 4
\* largest n-gram order tried
MaxN == 2

----------------------------------------------------------------------------
(* Small helpers *)

Min2(a, b) == IF a < b THEN a ELSE b
Max2(a, b) == IF a > b THEN a ELSE b

\* Python's seq[lo:hi] for 0 <= lo, on a TLA+ sequence (0-based bounds)
Slice(s, lo, hi) ==
    IF lo >= Min2(hi, Len(s)) THEN << >>
    ELSE [i \in 1..(Min2(hi, Len(s)) - lo) |-> s[lo + i]]

\* x in seq
SeqHas(s, x) == \E i \in 1..Len(s) : s[i] = x

RECURSIVE Concat(_)
Concat(ss) == IF ss = << >> THEN << >> ELSE Head(ss) \o Concat(Tail(ss))

\* all sequences over S of length exactly k, and of length at most k
RECURSIVE SeqsOfLen(_, _)
SeqsOfLen(S, k) ==
    IF k = 0 THEN { << >> }
    ELSE { Append(s, x) : s \in SeqsOfLen(S, k - 1), x \in S }
SeqsUpTo(S, k) == UNION { SeqsOfLen(S, j) : j \in 0..k }

\* rationals <<num, den>>, den > 0
RatGE(a, b) == a[1] * b[2] >= b[1] * a[2]
RatLT(a, b) == a[1] * b[2] < b[1] * a[2]
RatEQ(a, b) == a[1] * b[2] = b[1] * a[2]
One == <<1, 1>>
MinusOne == <<-1, 1>>

----------------------------------------------------------------------------
(* Graphemes and the sound table (dphon/g2p.py) *)

\* private-use character standing for the phonemes of an OOV token
OOV_PHONEMES == "OOV"
\* an unused part of a syllable (Python's None)
None == "None"

\* token.is_alpha / token.like_num of the graphemes used here
AlphaGraphemes == {"a", "A", "b", "x", "y", "q"}
NumGraphemes == {"2"}
PunctGraphemes == {"."}
Graphemes == AlphaGraphemes \cup NumGraphemes \cup PunctGraphemes

is_alpha(t) == t \in AlphaGraphemes
like_num(t) == t \in NumGraphemes
\* str.isalnum() of a one-character token text
isalnum(t) == t \in AlphaGraphemes \cup NumGraphemes

\* The sound table: one reading of eight parts per character; _select keeps
\* parts 3, 6 and 7 (0-based): initial, nucleus, coda.  "q" has no entry.
Reading(initial, nucleus, coda) ==
    <<None, None, None, initial, None, None, nucleus, coda>>
sound_table ==
    [t \in {"a", "A", "b", "x", "y", "2"} |->
        CASE t = "a" -> Reading("k", "a", None)
          [] t = "A" -> Reading("k", "a", None)
          [] t = "b" -> Reading("b", "a", "n")
          [] t = "x" -> Reading(None, "i", None)
          [] t = "y" -> Reading(None, "u", None)
          [] t = "2" -> Reading("t", "u", None)]

\* GraphemesToPhonemes.__init__: arity inferred from the table
empty_phonemes == [i \in 1..8 |-> None]

is_token_oov(t) == t \notin DOMAIN sound_table

_select(reading) == <<reading[4], reading[7], reading[8]>>

get_token_phonemes(t) ==
    IF ~is_alpha(t) /\ ~like_num(t) THEN empty_phonemes
    ELSE IF is_token_oov(t) THEN <<OOV_PHONEMES>>
    ELSE _select(sound_table[t])

\* flattened phonemes of a token sequence: unused parts dropped, OOV kept
RECURSIVE get_all_phonemes(_)
get_all_phonemes(tokens) ==
    IF tokens = << >> THEN << >>
    ELSE SelectSeq(get_token_phonemes(Head(tokens)), LAMBDA p : p # None)
            \o get_all_phonemes(Tail(tokens))

HasOOV(tokens) == SeqHas(get_all_phonemes(tokens), OOV_PHONEMES)

----------------------------------------------------------------------------
(* Levenshtein ratio (Lev.ratio): (lensum - dist) / lensum, where a         *)
(* substitution costs 2 and an insertion or deletion costs 1; 1.0 for two   *)
(* empty strings.                                                          *)

RECURSIVE LevNextRow(_, _, _, _)
LevNextRow(prev, c, s2, acc) ==
    IF Len(acc) = Len(s2) + 1 THEN acc
    ELSE LevNextRow(prev, c, s2,
            Append(acc, Min2(prev[Len(acc)] + (IF s2[Len(acc)] = c THEN 0 ELSE 2),
                             Min2(prev[Len(acc) + 1] + 1, acc[Len(acc)] + 1))))

RECURSIVE LevRows(_, _, _, _)
LevRows(s1, s2, i, prev) ==
    IF i > Len(s1) THEN prev
    ELSE LevRows(s1, s2, i + 1, LevNextRow(prev, s1[i], s2, <<prev[1] + 1>>))

LevDistance(s1, s2) ==
    LevRows(s1, s2, 1, [j \in 1..(Len(s2) + 1) |-> j - 1])[Len(s2) + 1]

LevRatio(s1, s2) ==
    IF Len(s1) + Len(s2) = 0 THEN One
    ELSE <<Len(s1) + Len(s2) - LevDistance(s1, s2), Len(s1) + Len(s2)>>

\* Python's text[-k:] and text[:k] for k >= 0 (text[-0:] is the whole text)
PyLast(s, k) == IF k = 0 \/ k >= Len(s) THEN s ELSE Slice(s, Len(s) - k, Len(s))
PyFirst(s, k) == Slice(s, 0, k)

----------------------------------------------------------------------------
(* State *)

VARIABLES
    pc,         \* position of the run
    docs,       \* the corpus: docs[id] is the token sequence of document id
    n,          \* Ngrams.n, the n-gram order
    ngrams_out, \* the windows get_doc_ngrams returned for the last document
    table,      \* LookupsIndex._table: sequence of [key, vals], insertion order
    edges,      \* MatchGraph._G edges, in insertion order
    threshold,  \* StringDistanceExtender.threshold, a rational
    len_limit,  \* StringDistanceExtender.len_limit
    kind,       \* which _score is used: "phonetic" or "text"
    seed,       \* the match handed to the extender or to the aligner
    extended,   \* the match the extender returned
    todo,       \* extend_matches: unprocessed matches, next one first
    working,    \* extend_matches: the working area
    done,       \* extend_matches: finished matches
    again,      \* what extend_matches returns for the list it returned
    aligned,    \* what the aligner returned for the match handed to it
    graph_groups, \* MatchGraph.groups
    groups_rerun, \* MatchGraph.groups of a second run on the same input
    variant,    \* what are_graphic_variants or has_variant returned
    G_new       \* the new graph G a stage of MatchGraph is filling

vars == <<pc, docs, n, ngrams_out, table, edges, threshold, len_limit,
          kind, seed, extended, todo, working, done, again, aligned, graph_groups,
          groups_rerun, variant, G_new>>

\* a spaCy Span: bounds into document doc (no copy of the tokens)
Span(d, s, e) == [doc |-> d, start |-> s, end |-> e]
\* doc[s:e], with Python's clamping of the bounds to the document
ClampBound(x, len) == Min2(Max2(x, 0), len)
DocSlice(D, d, s, e) ==
    Span(d, ClampBound(s, Len(D[d])),
         Max2(ClampBound(e, Len(D[d])), ClampBound(s, Len(D[d]))))
SpanTokens(D, sp) == Slice(D[sp.doc], sp.start, sp.end)
SpanLen(sp) == sp.end - sp.start

\* Match(u, v, utxt, vtxt, weight, au, av)
Match(u, v, utxt, vtxt, weight, au, av) ==
    [u |-> u, v |-> v, utxt |-> utxt, vtxt |-> vtxt, weight |-> weight,
     au |-> au, av |-> av]
NoMatch == [u |-> 0]

----------------------------------------------------------------------------
(* N-grams (dphon/ngrams.py) *)

\* a producer that loses the last full window of a document
get_doc_ngrams_short(D, d, k) ==
    IF Len(D[d]) = 0 THEN << >>
    ELSE [j \in 1..Max2(Len(D[d]) - k, 1) |-> DocSlice(D, d, j - 1, j - 1 + k)]
\* a producer that yields nothing for a document shorter than n
get_doc_ngrams_full_only(D, d, k) ==
    [j \in 1..Max2(Len(D[d]) - k + 1, 0) |-> DocSlice(D, d, j - 1, j - 1 + k)]

\* Ngrams.get_doc_ngrams: the windows doc[i:i+n], as spans of document d
get_doc_ngrams(D, d, k) ==
    IF Len(D[d]) = 0 THEN << >>
    ELSE [j \in 1..Max2(Len(D[d]) - k + 1, 1) |-> DocSlice(D, d, j - 1, j - 1 + k)]

----------------------------------------------------------------------------
(* The phonetic index (dphon/index.py) *)

\* str.isalpha() of a span's text (tokens are single characters and carry no
\* trailing whitespace); False for the empty string
text_isalpha(tokens) ==
    tokens # << >> /\ \A i \in 1..Len(tokens) : is_alpha(tokens[i])

\* NgramPhonemesLookupsIndex._get_vals: the n-grams worth indexing
_get_vals(D, d, k) ==
    SelectSeq(get_doc_ngrams(D, d, k),
              LAMBDA ng : text_isalpha(SpanTokens(D, ng))
                          /\ ~HasOOV(SpanTokens(D, ng)))

\* NgramPhonemesLookupsIndex._get_key: "".join(val._.phonemes)
_get_key(D, val) == get_all_phonemes(SpanTokens(D, val))

\* an index that puts a new value at the front of its bucket
IndexAddFront(tbl, key, val) ==
    IF \E i \in 1..Len(tbl) : tbl[i].key = key
    THEN [i \in 1..Len(tbl) |->
            IF tbl[i].key = key
            THEN [key |-> key, vals |-> <<val>> \o tbl[i].vals]
            ELSE tbl[i]]
    ELSE Append(tbl, [key |-> key, vals |-> <<val>>])

\* the body of the loop of LookupsIndex.__call__: append to the bucket of
\* the key, or open a new bucket at the end
IndexAdd(tbl, key, val) ==
    IF \E i \in 1..Len(tbl) : tbl[i].key = key
    THEN [i \in 1..Len(tbl) |->
            IF tbl[i].key = key
            THEN [key |-> key, vals |-> Append(tbl[i].vals, val)]
            ELSE tbl[i]]
    ELSE Append(tbl, [key |-> key, vals |-> <<val>>])

RECURSIVE IndexVals(_, _, _)
IndexVals(D, tbl, vals) ==
    IF vals = << >> THEN tbl
    ELSE IndexVals(D, IndexAdd(tbl, _get_key(D, Head(vals)), Head(vals)),
                   Tail(vals))

\* LookupsIndex.__call__
IndexCall(D, tbl, d, k) == IndexVals(D, tbl, _get_vals(D, d, k))

\* LookupsIndex.filter with the predicate of process(): len(g[1]) > 1
IndexFilter(tbl) == SelectSeq(tbl, LAMBDA g : Len(g.vals) > 1)

----------------------------------------------------------------------------
(* Seeding (dphon/cli.py, process) *)

\* every ordered pair of two different positions, instead of combinations
RECURSIVE permutations2(_)
permutations2(locs) ==
    IF Len(locs) < 2 THEN << >>
    ELSE [j \in 1..(Len(locs) - 1) |-> <<locs[1], locs[j + 1]>>]
            \o [j \in 1..(Len(locs) - 1) |-> <<locs[j + 1], locs[1]>>]
            \o permutations2(Tail(locs))

\* itertools.combinations(locations, 2), in its order
RECURSIVE combinations2(_)
combinations2(locs) ==
    IF Len(locs) < 2 THEN << >>
    ELSE [j \in 1..(Len(locs) - 1) |-> <<locs[1], locs[j + 1]>>]
            \o combinations2(Tail(locs))

\* the match process() adds for a pair of locations
SeedMatch(p) == Match(p[1].doc, p[2].doc, p[1], p[2], One, << >>, << >>)
SeedMatches(pairs) == [i \in 1..Len(pairs) |-> SeedMatch(pairs[i])]

\* seeding that keeps the pairs of one document
SeedGroupAllPairs(locations) == SeedMatches(combinations2(locations))

\* the matches process() adds for one seed group: pairs of one document are
\* skipped
SeedGroup(locations) ==
    SeedMatches(SelectSeq(combinations2(locations),
                          LAMBDA p : p[1].doc # p[2].doc))

RECURSIVE SeedGroups(_)
SeedGroups(groups) ==
    IF groups = << >> THEN << >>
    ELSE SeedGroup(Head(groups).vals) \o SeedGroups(Tail(groups))

\* all seeds of process(), in the order they are added to the graph
Seeds(tbl) == SeedGroups(IndexFilter(tbl))

----------------------------------------------------------------------------
(* The extender (dphon/extend.py).  An extender X is a record of its        *)
(* documents and parameters: [D, threshold, len_limit, kind].              *)

Extender(D, thr, lim, k) ==
    [D |-> D, threshold |-> thr, len_limit |-> lim, kind |-> k]

\* a phonetic score that gives an OOV token no special treatment
PhoneticScoreNoOOV(utoks, vtoks, rev, lim) ==
    IF rev THEN LevRatio(PyFirst(get_all_phonemes(utoks), lim),
                         PyFirst(get_all_phonemes(vtoks), lim))
    ELSE LevRatio(PyLast(get_all_phonemes(utoks), lim),
                  PyLast(get_all_phonemes(vtoks), lim))

\* LevenshteinPhoneticExtender._score on the tokens of two spans
PhoneticScore(utoks, vtoks, rev, lim) ==
    IF HasOOV(utoks) \/ HasOOV(vtoks) THEN MinusOne
    ELSE IF rev THEN LevRatio(PyFirst(get_all_phonemes(utoks), lim),
                              PyFirst(get_all_phonemes(vtoks), lim))
    ELSE LevRatio(PyLast(get_all_phonemes(utoks), lim),
                  PyLast(get_all_phonemes(vtoks), lim))

\* LevenshteinExtender._score: the same on the text of the spans
TextScore(utoks, vtoks, rev, lim) ==
    IF rev THEN LevRatio(PyFirst(utoks, lim), PyFirst(vtoks, lim))
    ELSE LevRatio(PyLast(utoks, lim), PyLast(vtoks, lim))

\* self._score(utxt, vtxt, rev)
_score(X, utxt, vtxt, rev) ==
    IF X.kind = "phonetic"
    THEN PhoneticScore(SpanTokens(X.D, utxt), SpanTokens(X.D, vtxt), rev,
                       X.len_limit)
    ELSE TextScore(SpanTokens(X.D, utxt), SpanTokens(X.D, vtxt), rev,
                   X.len_limit)

\* a trail counter that an equal score does not reset
NextTrailStrict(trail, new_score, score) ==
    IF RatGE(new_score, score) /\ ~RatEQ(new_score, score) THEN 0 ELSE trail + 1

\* the trail counter of both loops
NextTrail(trail, new_score, score) ==
    IF RatLT(new_score, score) THEN trail + 1 ELSE 0

\* the while loop of _extend_fwd; returns the spans reached and the trail
RECURSIVE fwd_loop(_, _, _, _, _)
fwd_loop(X, utxt, vtxt, score, trail) ==
    IF RatGE(score, X.threshold)
       /\ utxt.end < Len(X.D[utxt.doc]) /\ vtxt.end < Len(X.D[vtxt.doc])
    THEN LET scored(u1, v1, new_score) ==
                 fwd_loop(X, u1, v1, new_score,
                          NextTrail(trail, new_score, score))
             grown(u1, v1) == scored(u1, v1, _score(X, u1, v1, FALSE))
         IN  grown(DocSlice(X.D, utxt.doc, utxt.start, utxt.end + 1),
                   DocSlice(X.D, vtxt.doc, vtxt.start, vtxt.end + 1))
    ELSE [utxt |-> utxt, vtxt |-> vtxt, trail |-> trail]

\* a forward pass that trims back the u span only
FwdTrimOfU(X, r) ==
    [utxt |-> DocSlice(X.D, r.utxt.doc, r.utxt.start, r.utxt.end - r.trail),
     vtxt |-> r.vtxt]

\* the spans _extend_fwd returns: trimmed back by the trail
FwdTrim(X, r) ==
    [utxt |-> DocSlice(X.D, r.utxt.doc, r.utxt.start, r.utxt.end - r.trail),
     vtxt |-> DocSlice(X.D, r.vtxt.doc, r.vtxt.start, r.vtxt.end - r.trail)]

_extend_fwd(X, m) ==
    FwdTrim(X, fwd_loop(X, m.utxt, m.vtxt, _score(X, m.utxt, m.vtxt, FALSE), 0))

\* the while loop of _extend_rev
RECURSIVE rev_loop(_, _, _, _, _)
rev_loop(X, utxt, vtxt, score, trail) ==
    IF RatGE(score, X.threshold) /\ utxt.start > 0 /\ vtxt.start > 0
    THEN LET scored(u1, v1, new_score) ==
                 rev_loop(X, u1, v1, new_score,
                          NextTrail(trail, new_score, score))
             grown(u1, v1) == scored(u1, v1, _score(X, u1, v1, TRUE))
         IN  grown(DocSlice(X.D, utxt.doc, utxt.start - 1, utxt.end),
                   DocSlice(X.D, vtxt.doc, vtxt.start - 1, vtxt.end))
    ELSE [utxt |-> utxt, vtxt |-> vtxt, trail |-> trail]

RevTrim(X, r) ==
    [utxt |-> DocSlice(X.D, r.utxt.doc, r.utxt.start + r.trail, r.utxt.end),
     vtxt |-> DocSlice(X.D, r.vtxt.doc, r.vtxt.start + r.trail, r.vtxt.end)]

\* a backward pass that leaves the seed as it is
_extend_rev_none(X, m) == [utxt |-> m.utxt, vtxt |-> m.vtxt]

_extend_rev(X, m) ==
    RevTrim(X, rev_loop(X, m.utxt, m.vtxt, _score(X, m.utxt, m.vtxt, TRUE), 0))

\* StringDistanceExtender.__call__
extend(X, m) ==
    LET joined(utxt, vtxt) ==
            Match(m.u, m.v, utxt, vtxt, _score(X, utxt, vtxt, FALSE),
                  << >>, << >>)
        both(ex_fwd, ex_rev) ==
            joined(DocSlice(X.D, m.utxt.doc, ex_rev.utxt.start, ex_fwd.utxt.end),
                   DocSlice(X.D, m.vtxt.doc, ex_rev.vtxt.start, ex_fwd.vtxt.end))
    IN  both(_extend_fwd(X, m), _extend_rev(X, m))

----------------------------------------------------------------------------
(* The match-list reducer (dphon/extend.py, extend_matches) *)

\* the order of matches of one document pair: by (u.start, u.end, v.start,
\* v.end)
SortKey(m) == <<m.utxt.start, m.utxt.end, m.vtxt.start, m.vtxt.end>>
KeyLess(ka, kb) ==
    \E i \in 1..4 : ka[i] < kb[i] /\ \A j \in 1..(i - 1) : ka[j] = kb[j]
MatchLess(a, b) == KeyLess(SortKey(a), SortKey(b))

\* sorted(matches): a stable sort
RECURSIVE InsertSorted(_, _)
InsertSorted(sorted, m) ==
    IF sorted = << >> THEN <<m>>
    ELSE IF MatchLess(m, Head(sorted)) THEN <<m>> \o sorted
    ELSE <<Head(sorted)>> \o InsertSorted(Tail(sorted), m)

RECURSIVE Sorted(_)
Sorted(ms) ==
    IF ms = << >> THEN << >>
    ELSE InsertSorted(Sorted(SubSeq(ms, 1, Len(ms) - 1)), ms[Len(ms)])

Reversed(s) == [i \in 1..Len(s) |-> s[Len(s) + 1 - i]]

\* the test that decides that the current match is internal to a working one
Internal(current, match) ==
    /\ current.vtxt.start >= match.vtxt.start
    /\ current.vtxt.start <= match.vtxt.end
    /\ current.vtxt.end <= match.vtxt.end

\* the test that clears and resets the working area
OutsideWorking(current, work) ==
    IF work = << >> THEN TRUE ELSE current.utxt.start >= work[1].utxt.end

\* one iteration of the while loop, on the state [todo, working, done]
ReduceStep(X, st) ==
    LET step(current, rest) ==
            IF OutsideWorking(current, st.working)
            THEN [todo |-> rest, working |-> <<extend(X, current)>>,
                  done |-> st.done \o st.working]
            ELSE IF \E i \in 1..Len(st.working) :
                        Internal(current, st.working[i])
            THEN [todo |-> rest, working |-> st.working, done |-> st.done]
            ELSE [todo |-> rest,
                  working |-> Append(st.working, extend(X, current)),
                  done |-> st.done]
    IN  step(st.todo[Len(st.todo)], SubSeq(st.todo, 1, Len(st.todo) - 1))

\* a state before the loop whose queue is sorted but not reversed
ReduceStartAscending(matches) ==
    [todo |-> Sorted(matches), working |-> << >>, done |-> << >>]

\* the state before the loop
ReduceStart(matches) ==
    [todo |-> Reversed(Sorted(matches)), working |-> << >>, done |-> << >>]

RECURSIVE reduce_loop(_, _)
reduce_loop(X, st) ==
    IF st.todo = << >> THEN st.done \o st.working
    ELSE reduce_loop(X, ReduceStep(X, st))

extend_matches(matches, X) == reduce_loop(X, ReduceStart(matches))

----------------------------------------------------------------------------
(* Graphic variants (dphon/g2p.py) *)

\* tokens that are voiced, have readings and sound alike, whatever their text
are_homophones(tokens) ==
    LET compare(base_phon) ==
            IF base_phon = empty_phonemes \/ base_phon = <<OOV_PHONEMES>>
            THEN FALSE
            ELSE \A i \in 2..Len(tokens) :
                    get_token_phonemes(tokens[i]) = base_phon
    IN  compare(get_token_phonemes(tokens[1]))

\* GraphemesToPhonemes.are_graphic_variants(*tokens): every token is compared
\* with the first one
are_graphic_variants(tokens) ==
    LET compare(base_text, base_phon) ==
            IF base_phon = empty_phonemes \/ base_phon = <<OOV_PHONEMES>>
            THEN FALSE
            ELSE \A i \in 2..Len(tokens) :
                    ~(\/ get_token_phonemes(tokens[i]) = empty_phonemes
                      \/ get_token_phonemes(tokens[i]) = <<OOV_PHONEMES>>
                      \/ get_token_phonemes(tokens[i]) # base_phon
                      \/ tokens[i] = base_text)
    IN  compare(tokens[1], get_token_phonemes(tokens[1]))

\* len(match): the longer of the two spans
MatchLen(m) == Max2(SpanLen(m.utxt), SpanLen(m.vtxt))

\* GraphemesToPhonemes.has_variant: "TRUE", "FALSE", or "IndexError" when an
\* index i < len(match) lies outside the shorter span before a variant is
\* found
RECURSIVE has_variant_from(_, _, _)
has_variant_from(D, m, i) ==
    IF i >= MatchLen(m) THEN "FALSE"
    ELSE IF i >= SpanLen(m.utxt) \/ i >= SpanLen(m.vtxt) THEN "IndexError"
    ELSE IF are_graphic_variants(<<SpanTokens(D, m.utxt)[i + 1],
                                   SpanTokens(D, m.vtxt)[i + 1]>>) THEN "TRUE"
    ELSE has_variant_from(D, m, i + 1)

has_variant(D, m) == has_variant_from(D, m, 0)

----------------------------------------------------------------------------
(* The match graph (dphon/reuse.py).  Nodes are the document ids 1..N in    *)
(* the order they were added; E is the sequence of edges in the order they *)
(* were added.                                                             *)

\* the edges between u and v, in the order of their keys
EdgesBetween(E, u, v) ==
    SelectSeq(E, LAMBDA m : {m.u, m.v} = {u, v})

\* combinations(self._G.nodes, 2), in its order
RECURSIVE NodePairsFrom(_, _)
NodePairsFrom(u, N) ==
    IF u >= N THEN << >>
    ELSE [j \in 1..(N - u) |-> <<u, u + j>>] \o NodePairsFrom(u + 1, N)
NodePairs(N) == NodePairsFrom(1, N)

\* the neighbours of u that come after u, in the order u's adjacency got them
OtherEnd(m, u) == IF m.u = u THEN m.v ELSE m.u
RECURSIVE LaterNeighbours(_, _, _)
LaterNeighbours(E, u, acc) ==
    IF E = << >> THEN acc
    ELSE LaterNeighbours(Tail(E), u,
            IF u \in {Head(E).u, Head(E).v} /\ OtherEnd(Head(E), u) > u
               /\ ~SeqHas(acc, OtherEnd(Head(E), u))
            THEN Append(acc, OtherEnd(Head(E), u)) ELSE acc)

RECURSIVE EdgesOfNode(_, _, _)
EdgesOfNode(E, u, nbrs) ==
    IF nbrs = << >> THEN << >>
    ELSE EdgesBetween(E, u, Head(nbrs)) \o EdgesOfNode(E, u, Tail(nbrs))

\* MatchGraph.matches: the edges as networkx iterates over them
RECURSIVE MatchesFrom(_, _, _)
MatchesFrom(E, u, N) ==
    IF u > N THEN << >>
    ELSE EdgesOfNode(E, u, LaterNeighbours(E, u, << >>))
            \o MatchesFrom(E, u + 1, N)
GraphMatches(E, N) == MatchesFrom(E, 1, N)

\* an extend() that reduces all the edges of the graph as one list
GraphExtendAtOnce(E, N, X) == extend_matches(E, X)

\* MatchGraph.extend: the new edge sequence
RECURSIVE ExtendPairs(_, _, _)
ExtendPairs(E, pairs, X) ==
    IF pairs = << >> THEN << >>
    ELSE extend_matches(EdgesBetween(E, Head(pairs)[1], Head(pairs)[2]), X)
            \o ExtendPairs(E, Tail(pairs), X)
GraphExtend(E, N, X) == ExtendPairs(E, NodePairs(N), X)

\* MatchGraph.group: the two keys of a match
u_key(m) == <<m.u, m.utxt.start, m.utxt.end>>
v_key(m) == <<m.v, m.vtxt.start, m.vtxt.end>>

\* bounds_to_matches[key], for the set ms of the matches of the graph
bounds_to_matches(ms, key) == { m \in ms : key \in {u_key(m), v_key(m)} }
BoundsKeys(ms) == { u_key(m) : m \in ms } \cup { v_key(m) : m \in ms }

\* the match sets of one match, which become groups of their own
SingleSets(ms) ==
    { bounds_to_matches(ms, key) :
        key \in { k \in BoundsKeys(ms) :
                    Cardinality(bounds_to_matches(ms, k)) = 1 } }

\* the other match sets: grouped_matches
grouped_matches(ms) ==
    { bounds_to_matches(ms, key) :
        key \in { k \in BoundsKeys(ms) :
                    Cardinality(bounds_to_matches(ms, k)) > 1 } }

\* the graph G of group(): an edge joins any two matches of one match set;
\* the matches that an edge joins to a match of acc, and those of acc in G
GroupNeighbours(sets, acc) == UNION { set \in sets : set \cap acc # {} }

\* connected_components(G): the component of the matches acc
RECURSIVE Component(_, _)
Component(sets, acc) ==
    IF GroupNeighbours(sets, acc) \subseteq acc THEN acc
    ELSE Component(sets, acc \cup GroupNeighbours(sets, acc))
Components(sets) == { Component(sets, set) : set \in sets }

\* the member sets of the groups group() makes; a group is known by its
\* members, so equal sets make one group
GroupSets(ms) == SingleSets(ms) \cup Components(grouped_matches(ms))

\* the order of strings: by the code points of their characters
CodePoint(g) ==
    CASE g = "." -> 46 [] g = "2" -> 50 [] g = "A" -> 65 [] g = "_" -> 95
      [] g = "a" -> 97 [] g = "b" -> 98 [] g = "q" -> 113 [] g = "x" -> 120
      [] g = "y" -> 121

RECURSIVE TextLess(_, _)
TextLess(s, t) ==
    IF t = << >> THEN FALSE
    ELSE IF s = << >> THEN TRUE
    ELSE IF CodePoint(Head(s)) # CodePoint(Head(t))
    THEN CodePoint(Head(s)) < CodePoint(Head(t))
    ELSE TextLess(Tail(s), Tail(t))

\* the order of tuples of numbers of one length
TupleLess(a, b) ==
    \E i \in 1..Len(a) : a[i] < b[i] /\ \A j \in 1..(i - 1) : a[j] = b[j]

\* The order in which a set is iterated over follows the hashes of its
\* elements, which change from one process to the next (the hash of a string
\* is seeded per process).  A process has one of the seeds HashSeeds; under
\* seed 0 a set of tuples is iterated over in ascending order, under seed 1
\* in descending order.
HashSeeds == {0, 1}
SetFirst(keys, h) ==
    CHOOSE k \in keys :
        \A o \in keys : IF h = 0 THEN ~TupleLess(o, k) ELSE ~TupleLess(k, o)

\* MatchGroup.spans before it is sorted: (span, aligned text) of both sides of
\* every match
GroupSpans(matches) ==
    { <<u_key(m), m.au>> : m \in matches }
        \cup { <<v_key(m), m.av>> : m \in matches }

\* the spans that sorted(spans, key=text), a stable sort, can put first
MinTextSpans(spans) ==
    { x \in spans : \A y \in spans : ~TextLess(y[2], x[2]) }

\* MatchGroup(matches): the members and the anchor, spans[0]
MatchGroupAt(matches, anchor) ==
    [matches |-> matches, doc |-> anchor[1], start |-> anchor[2],
     end |-> anchor[3]]
MatchGroup(matches, h) ==
    MatchGroupAt(matches,
                 SetFirst({ x[1] : x \in MinTextSpans(GroupSpans(matches)) },
                          h))

\* list(groups): the set of groups in the order it is iterated over
MemberKey(m) == <<m.u, m.v>> \o SortKey(m)
GroupRank(g) ==
    <<Cardinality(g)>> \o SetFirst({ MemberKey(m) : m \in g }, 0)
RECURSIVE GroupList(_, _)
GroupList(G, h) ==
    IF G = {} THEN << >>
    ELSE LET from(g) == <<g>> \o GroupList(G \ {g}, h)
         IN  from(CHOOSE g \in G :
                    GroupRank(g) = SetFirst({ GroupRank(o) : o \in G }, h))

\* MatchGraph.group, in a process with hash seed h: the new value of groups
MatchSet(E, N) ==
    { GraphMatches(E, N)[i] : i \in 1..Len(GraphMatches(E, N)) }
GroupsOf(sets, h) == [i \in 1..Len(sets) |-> MatchGroup(sets[i], h)]
group(E, N, h) == GroupsOf(GroupList(GroupSets(MatchSet(E, N)), h), h)

----------------------------------------------------------------------------
(* The aligner (dphon/align.py) *)

\* the gap penalty sw_align is called with (its default)
GapPenalty == -1
\* the gap symbol of the alignment, and the aligner's gap_char
SwGap == "-"
gap_char == "_"

\* SmithWatermanPhoneticAligner._get_seqs: one string per token, its phonemes
\* or, without any, its text
TokenSeq(t) ==
    IF SelectSeq(get_token_phonemes(t), LAMBDA p : p # None) = << >> THEN <<t>>
    ELSE SelectSeq(get_token_phonemes(t), LAMBDA p : p # None)
_get_seqs(tokens) == [i \in 1..Len(tokens) |-> TokenSeq(tokens[i])]

\* the default scorer: 1 for equal symbols, -1 otherwise
DefaultScorer(a, b) == IF a = b THEN 1 ELSE -1

\* one cell of the Smith-Waterman matrix: score s and traceback t
\* (3 gap in A, 1 match, 2 gap in B, 0 stop)
SwPick(gapA, gapB, match) ==
    IF gapA >= match /\ gapA >= gapB /\ gapA >= 0 THEN [s |-> gapA, t |-> 3]
    ELSE IF match >= gapB /\ match >= 0 THEN [s |-> match, t |-> 1]
    ELSE IF gapB >= 0 THEN [s |-> gapB, t |-> 2]
    ELSE [s |-> 0, t |-> 0]
SwCell(up, left, diag, a, b) ==
    SwPick(up + GapPenalty, left + GapPenalty, diag + DefaultScorer(a, b))

\* row i of the matrix from row i - 1; cells 1..lenA+1 stand for columns 0..lenA
RECURSIVE SwRow(_, _, _, _)
SwRow(prev, b, seqA, acc) ==
    IF Len(acc) = Len(seqA) + 1 THEN acc
    ELSE SwRow(prev, b, seqA,
               Append(acc, SwCell(prev[Len(acc) + 1].s, acc[Len(acc)].s,
                                  prev[Len(acc)].s, seqA[Len(acc)], b)))

RECURSIVE SwMatrix(_, _, _)
SwMatrix(seqA, seqB, rows) ==
    IF Len(rows) = Len(seqB) + 1 THEN rows
    ELSE SwMatrix(seqA, seqB,
                  Append(rows, SwRow(rows[Len(rows)], seqB[Len(rows)], seqA,
                                     << [s |-> 0, t |-> 0] >>)))

\* the last cell, in row-major order, that holds the maximal score
RECURSIVE SwMax(_, _, _, _)
SwMax(M, i, j, best) ==
    IF i > Len(M) - 1 THEN best
    ELSE IF j > Len(M[1]) - 1 THEN SwMax(M, i + 1, 1, best)
    ELSE SwMax(M, i, j + 1,
               IF M[i + 1][j + 1].s >= best.s
               THEN [s |-> M[i + 1][j + 1].s, i |-> i, j |-> j] ELSE best)

\* the traceback from cell (i, j); the alignment is built back to front
RECURSIVE SwTrace(_, _, _, _, _, _, _)
SwTrace(M, seqA, seqB, i, j, almA, almB) ==
    CASE M[i + 1][j + 1].t = 3 ->
            SwTrace(M, seqA, seqB, i - 1, j,
                    <<SwGap>> \o almA, <<seqB[i]>> \o almB)
      [] M[i + 1][j + 1].t = 1 ->
            SwTrace(M, seqA, seqB, i - 1, j - 1,
                    <<seqA[j]>> \o almA, <<seqB[i]>> \o almB)
      [] M[i + 1][j + 1].t = 2 ->
            SwTrace(M, seqA, seqB, i, j - 1,
                    <<seqA[j]>> \o almA, <<SwGap>> \o almB)
      [] OTHER -> [i |-> i, j |-> j, almA |-> almA, almB |-> almB]

\* sw_align(seqA, seqB): the lengths of the unaligned prefixes, the aligned
\* centres and the score
SwResult(mx, tr) ==
    [lu |-> tr.j, cu |-> tr.almA, lv |-> tr.i, cv |-> tr.almB, score |-> mx.s]
SwFromMax(M, seqA, seqB, mx) ==
    SwResult(mx, IF seqA = << >> \/ seqB = << >>
                 THEN [i |-> 0, j |-> 0, almA |-> << >>, almB |-> << >>]
                 ELSE SwTrace(M, seqA, seqB, mx.i, mx.j, << >>, << >>))
SwFromMatrix(M, seqA, seqB) ==
    SwFromMax(M, seqA, seqB, SwMax(M, 1, 1, [s |-> 0, i |-> 1, j |-> 1]))
sw_align(seqA, seqB) ==
    SwFromMatrix(SwMatrix(seqA, seqB,
                     << [j \in 1..(Len(seqA) + 1) |-> [s |-> 0, t |-> 0]] >>),
                 seqA, seqB)

\* the loop of SmithWatermanAligner.__call__ that builds au and av; total is
\* max(len(utxt), len(vtxt)); the result is [err, au, av], err set when an
\* index is out of range
RECURSIVE AlnBuild(_, _, _, _, _, _, _, _, _, _)
AlnBuild(utoks, vtoks, cu, cv, total, i, u_ptr, v_ptr, au, av) ==
    IF i >= total THEN [err |-> FALSE, au |-> au, av |-> av]
    ELSE IF i >= Len(cu) \/ i >= Len(cv) THEN [err |-> TRUE, au |-> au, av |-> av]
    ELSE IF (cu[i + 1] # SwGap /\ u_ptr >= Len(utoks))
            \/ (cv[i + 1] # SwGap /\ v_ptr >= Len(vtoks))
    THEN [err |-> TRUE, au |-> au, av |-> av]
    ELSE AlnBuild(utoks, vtoks, cu, cv, total, i + 1,
                  IF cu[i + 1] = SwGap THEN u_ptr ELSE u_ptr + 1,
                  IF cv[i + 1] = SwGap THEN v_ptr ELSE v_ptr + 1,
                  Append(au, IF cu[i + 1] = SwGap THEN gap_char
                             ELSE utoks[u_ptr + 1]),
                  Append(av, IF cv[i + 1] = SwGap THEN gap_char
                             ELSE vtoks[v_ptr + 1]))

\* span[:-1] and span[1:]
SpanDropLast(sp) == Span(sp.doc, sp.start, Max2(sp.end - 1, sp.start))
SpanDropFirst(sp) == Span(sp.doc, Min2(sp.start + 1, sp.end), sp.end)

\* the two trimming loops; the result is [err, utxt, vtxt, au, av], err set
\* when au[-1] or au[0] is read from an empty list
\* a first loop that looks at the end of au only
RECURSIVE TrimEndOfU(_, _, _, _)
TrimEndOfU(utxt, vtxt, au, av) ==
    IF au = << >> \/ av = << >>
    THEN [err |-> TRUE, utxt |-> utxt, vtxt |-> vtxt, au |-> au, av |-> av]
    ELSE IF ~isalnum(au[Len(au)])
    THEN TrimEndOfU(SpanDropLast(utxt), SpanDropLast(vtxt),
                    SubSeq(au, 1, Len(au) - 1), SubSeq(av, 1, Len(av) - 1))
    ELSE [err |-> FALSE, utxt |-> utxt, vtxt |-> vtxt, au |-> au, av |-> av]

RECURSIVE TrimEnd(_, _, _, _)
TrimEnd(utxt, vtxt, au, av) ==
    IF au = << >> \/ av = << >>
    THEN [err |-> TRUE, utxt |-> utxt, vtxt |-> vtxt, au |-> au, av |-> av]
    ELSE IF ~isalnum(au[Len(au)]) \/ ~isalnum(av[Len(av)])
    THEN TrimEnd(SpanDropLast(utxt), SpanDropLast(vtxt),
                 SubSeq(au, 1, Len(au) - 1), SubSeq(av, 1, Len(av) - 1))
    ELSE [err |-> FALSE, utxt |-> utxt, vtxt |-> vtxt, au |-> au, av |-> av]

RECURSIVE TrimStart(_, _, _, _)
TrimStart(utxt, vtxt, au, av) ==
    IF au = << >> \/ av = << >>
    THEN [err |-> TRUE, utxt |-> utxt, vtxt |-> vtxt, au |-> au, av |-> av]
    ELSE IF ~isalnum(au[1]) \/ ~isalnum(av[1])
    THEN TrimStart(SpanDropFirst(utxt), SpanDropFirst(vtxt), Tail(au), Tail(av))
    ELSE [err |-> FALSE, utxt |-> utxt, vtxt |-> vtxt, au |-> au, av |-> av]

\* SmithWatermanAligner.__call__: [err |-> TRUE] when it raises, else
\* [err |-> FALSE, match |-> the aligned match]
AlignResult(m, score, trimmed) ==
    IF trimmed.err THEN [err |-> TRUE]
    ELSE [err |-> FALSE,
          match |-> Match(m.u, m.v, trimmed.utxt, trimmed.vtxt,
                          <<score, Max2(Len(trimmed.au), Len(trimmed.av))>>,
                          trimmed.au, trimmed.av)]
AlignTrimStart(m, score, ended) ==
    IF ended.err THEN [err |-> TRUE]
    ELSE AlignResult(m, score,
                     TrimStart(ended.utxt, ended.vtxt, ended.au, ended.av))
AlignTrim(m, score, utxt, vtxt, built) ==
    IF built.err THEN [err |-> TRUE]
    ELSE AlignTrimStart(m, score, TrimEnd(utxt, vtxt, built.au, built.av))
AlignSpans(D, m, sw, utxt, vtxt) ==
    AlignTrim(m, sw.score, utxt, vtxt,
              AlnBuild(SpanTokens(D, utxt), SpanTokens(D, vtxt), sw.cu, sw.cv,
                       Max2(SpanLen(utxt), SpanLen(vtxt)),
                       0, 0, 0, << >>, << >>))
AlignSw(D, m, sw) ==
    AlignSpans(D, m, sw,
               DocSlice(D, m.utxt.doc, m.utxt.start + sw.lu,
                        m.utxt.start + sw.lu + Len(sw.cu)),
               DocSlice(D, m.vtxt.doc, m.vtxt.start + sw.lv,
                        m.vtxt.start + sw.lv + Len(sw.cv)))
align(D, m) ==
    AlignSw(D, m, sw_align(_get_seqs(SpanTokens(D, m.utxt)),
                           _get_seqs(SpanTokens(D, m.vtxt))))

\* MatchGraph.align: [err, edges], err when an alignment raises
AlignPair(D, E, pair) ==
    [i \in 1..Len(EdgesBetween(E, pair[1], pair[2])) |->
        align(D, EdgesBetween(E, pair[1], pair[2])[i])]
GraphAlignResult(E, res) ==
    IF \E i \in 1..Len(res) : res[i].err THEN [err |-> TRUE, edges |-> E]
    ELSE [err |-> FALSE, edges |-> [i \in 1..Len(res) |-> res[i].match]]
GraphAlign(D, E, N) ==
    GraphAlignResult(E, Concat([p \in 1..Len(NodePairs(N)) |->
                                    AlignPair(D, E, NodePairs(N)[p])]))

\* MatchGraph.filter, the predicate given as the set of matches it accepts
GraphFilter(E, N, accepted) ==
    SelectSeq(GraphMatches(E, N), LAMBDA m : m \in accepted)

----------------------------------------------------------------------------
(* The run of process() (dphon/cli.py): documents are loaded and indexed    *)
(* one by one, the seeds are added to the graph, then the stages run.      *)

\* graphemes of the corpora: two graphic variants, another syllable, an OOV
\* character and a punctuation mark
CorpusGraphemes == {"a", "A", "x", "q", "."}
\* thresholds (-k) and length limits (-l) of the extender
Thresholds == { <<1, 2>>, <<3, 4>> }
LenLimits == {2, 50}

RECURSIVE TotalTokens(_)
TotalTokens(D) == IF D = << >> THEN 0 ELSE Len(Head(D)) + TotalTokens(Tail(D))

Init ==
    /\ pc = "load"
    /\ docs = << >>
    /\ n \in 1..MaxN
    /\ ngrams_out = << >>
    /\ table = << >>
    /\ edges = << >>
    /\ threshold = <<7, 10>>
    /\ len_limit = 50
    /\ kind = "phonetic"
    /\ seed = NoMatch
    /\ extended = NoMatch
    /\ todo = << >>
    /\ working = << >>
    /\ done = << >>
    /\ again = << >>
    /\ aligned = NoMatch
    /\ graph_groups = << >>
    /\ groups_rerun = << >>
    /\ variant = ""
    /\ G_new = << >>

extVars == <<threshold, len_limit, kind, seed, extended>>
redVars == <<todo, working, done, again>>
outVars == <<aligned, graph_groups, groups_rerun, variant, G_new>>

\* one document comes out of nlp.pipe (n-grams, index) and is added to the graph
LoadDoc ==
    /\ pc = "load"
    /\ Len(docs) < MaxDocs
    /\ \E k \in 0..(MaxTokens - TotalTokens(docs)) :
         \E d \in SeqsOfLen(CorpusGraphemes, k) :
            /\ docs' = Append(docs, d)
            /\ ngrams_out' = get_doc_ngrams(docs', Len(docs'), n)
            /\ table' = IndexCall(docs', table, Len(docs'), n)
    /\ UNCHANGED <<pc, n, edges, extVars, redVars, outVars>>

\* the index is pruned and the seeds are added to the graph
SeedStage ==
    /\ pc = "load"
    /\ edges' = Seeds(table)
    /\ pc' = "seeded"
    /\ UNCHANGED <<docs, n, ngrams_out, table, extVars, redVars, outVars>>

\* graph.filter(has_variant); an IndexError leaves the graph as it was
FilterVariantStage ==
    /\ pc \in {"seeded", "staged"}
    /\ \E ms \in {GraphMatches(edges, Len(docs))} :
           IF \E i \in 1..Len(ms) : has_variant(docs, ms[i]) = "IndexError"
           THEN pc' = "error" /\ UNCHANGED edges
           ELSE /\ edges' = GraphFilter(edges, Len(docs),
                            { ms[i] : i \in { j \in 1..Len(ms) :
                                          has_variant(docs, ms[j]) = "TRUE" } })
                /\ pc' = "staged"
    /\ UNCHANGED <<docs, n, ngrams_out, table, extVars, redVars, outVars>>

\* graph.filter(lambda m: len(m) >= min_length)
FilterLengthStage ==
    /\ pc \in {"seeded", "staged"}
    /\ \E min_length \in 1..(MaxN + 1) :
         edges' = GraphFilter(edges, Len(docs),
                     { edges[i] : i \in { j \in 1..Len(edges) :
                                    MatchLen(edges[j]) >= min_length } })
    /\ pc' = "staged"
    /\ UNCHANGED <<docs, n, ngrams_out, table, extVars, redVars, outVars>>

\* graph.extend(LevenshteinPhoneticExtender(threshold, len_limit))
ExtendStage ==
    /\ pc \in {"seeded", "staged"}
    /\ \E thr \in Thresholds, lim \in LenLimits :
         edges' = GraphExtend(edges, Len(docs),
                              Extender(docs, thr, lim, "phonetic"))
    /\ pc' = "staged"
    /\ UNCHANGED <<docs, n, ngrams_out, table, extVars, redVars, outVars>>

\* graph.align(SmithWatermanPhoneticAligner()); an error leaves the graph as
\* it was
AlignStage ==
    /\ pc \in {"seeded", "staged"}
    /\ \E res \in {GraphAlign(docs, edges, Len(docs))} :
           IF res.err THEN pc' = "error" /\ UNCHANGED edges
           ELSE edges' = res.edges /\ pc' = "staged"
    /\ UNCHANGED <<docs, n, ngrams_out, table, extVars, redVars, outVars>>

Next ==
    \/ LoadDoc
    \/ SeedStage
    \/ FilterVariantStage
    \/ FilterLengthStage
    \/ ExtendStage
    \/ AlignStage

Spec == Init /\ [][Next]_vars

----------------------------------------------------------------------------
(* Properties of the run of process() *)

\* C1: no match connects a document to itself: every seed has u # v, and so
\* has every edge of the graph after any sequence of filter, extend and
\* align stages.
C1_NoSelfLoops ==
    \A i \in 1..Len(edges) : edges[i].u # edges[i].v

\* an edge that was seeded, extended beyond n tokens and then aligned
C1_Witness ==
    /\ pc = "staged"
    /\ \E i \in 1..Len(edges) :
          /\ edges[i].au # << >>
          /\ SpanLen(edges[i].utxt) > n
          /\ edges[i].u # edges[i].v

\* the positions <<b, i, j>> of two spans of bucket b from distinct documents
CrossDocPairs ==
    { p \in (1..Len(table)) \X (1..MaxTokens) \X (1..MaxTokens) :
        /\ p[2] < p[3]
        /\ p[3] <= Len(table[p[1]].vals)
        /\ table[p[1]].vals[p[2]].doc # table[p[1]].vals[p[3]].doc }
\* the seeds that join spans a and c
SeedsOfPair(a, c) ==
    { k \in 1..Len(edges) : {edges[k].utxt, edges[k].vtxt} = {a, c} }

\* C2: seeding emits exactly one match, of score 1.0, for each unordered pair
\* of spans of one bucket that belong to two distinct documents, and no
\* other match (none for a bucket of one span, none for a pair of spans of
\* one document).
C2_SeedsArePairs ==
    pc = "seeded" =>
        /\ \A p \in CrossDocPairs :
              /\ Cardinality(SeedsOfPair(table[p[1]].vals[p[2]],
                                         table[p[1]].vals[p[3]])) = 1
              /\ \A k \in SeedsOfPair(table[p[1]].vals[p[2]],
                                      table[p[1]].vals[p[3]]) :
                    edges[k].weight = One
        /\ \A k \in 1..Len(edges) :
              \E p \in CrossDocPairs :
                  {edges[k].utxt, edges[k].vtxt}
                      = {table[p[1]].vals[p[2]], table[p[1]].vals[p[3]]}
        /\ Len(edges) = Cardinality(CrossDocPairs)

\* seeds of a bucket that also holds two spans of one document, next to a
\* bucket of a single span
C2_Witness ==
    /\ pc = "seeded"
    /\ edges # << >>
    /\ \E b \in 1..Len(table) : Len(table[b].vals) = 1
    /\ \E b \in 1..Len(table) :
          \E i, j \in 1..Len(table[b].vals) :
              /\ i < j
              /\ table[b].vals[i].doc = table[b].vals[j].doc
              /\ \E k \in 1..Len(table[b].vals) :
                    table[b].vals[k].doc # table[b].vals[i].doc

\* every n-gram produced so far, in document order and then by position
AllNgrams ==
    Concat([d \in 1..Len(docs) |-> get_doc_ngrams(docs, d, n)])
\* all tokens alphabetic and none out of vocabulary
Indexable(tokens) ==
    /\ tokens # << >>
    /\ \A i \in 1..Len(tokens) :
          is_alpha(tokens[i]) /\ ~is_token_oov(tokens[i])
\* the bucket the index should hold under key k
ExpectedBucket(k) ==
    SelectSeq(AllNgrams,
              LAMBDA g : Indexable(SpanTokens(docs, g))
                         /\ get_all_phonemes(SpanTokens(docs, g)) = k)

\* C3: after indexing any sequence of documents, the bucket under key k is
\* exactly the sequence of the n-grams with only alphabetic, in-vocabulary
\* tokens whose joined phonemes are k, each once and in the order indexed;
\* an n-gram with a non-alphabetic or OOV token is in no bucket.
C3_BucketContents ==
    /\ \A b \in 1..Len(table) :
          /\ table[b].vals # << >>
          /\ table[b].vals = ExpectedBucket(table[b].key)
          /\ \A c \in 1..Len(table) : table[c].key = table[b].key => c = b
    /\ \A i \in 1..Len(AllNgrams) :
          (\E b \in 1..Len(table) : SeqHas(table[b].vals, AllNgrams[i]))
              <=> Indexable(SpanTokens(docs, AllNgrams[i]))

\* two buckets, one of them with spans of two documents, and an n-gram left
\* out of the index
C3_Witness ==
    /\ Len(table) >= 2
    /\ \E b \in 1..Len(table) :
          \E i, j \in 1..Len(table[b].vals) :
              i < j /\ table[b].vals[i].doc < table[b].vals[j].doc
    /\ \E i \in 1..Len(AllNgrams) : ~Indexable(SpanTokens(docs, AllNgrams[i]))

\* the windows of the last document as claimed: doc[i : i+n] for i in
\* [0, max(0, |doc| - n + 1))
ClaimedWindows(len) ==
    [j \in 1..Max2(0, len - n + 1) |->
        Span(Len(docs), j - 1, Min2(j - 1 + n, len))]
\* the windows of the last document as produced: one window at least for a
\* document that is not empty
ProducedWindows(len) ==
    IF len = 0 THEN << >>
    ELSE [j \in 1..Max2(1, len - n + 1) |->
            Span(Len(docs), j - 1, Min2(j - 1 + n, len))]

\* C4 as stated: ngrams(doc, n) yields exactly the windows doc[i : i+n] for
\* i in [0, max(0, |doc| - n + 1)), in increasing order of i.
C4_WindowsAsClaimed ==
    docs # << >> => ngrams_out = ClaimedWindows(Len(docs[Len(docs)]))

\* C4: ngrams(doc, n) yields exactly the windows doc[i : i+n] for i in
\* [0, max(1, |doc| - n + 1)) when doc is not empty, in increasing order of
\* i, and no window when doc is empty.
C4_Windows ==
    docs # << >> => ngrams_out = ProducedWindows(Len(docs[Len(docs)]))

\* a document long enough for several full windows
C4_Witness ==
    /\ docs # << >>
    /\ n = 2
    /\ Len(docs[Len(docs)]) = 4
    /\ Len(ngrams_out) = 3

\* C5: an empty document yields no window; a document that is not empty and
\* has fewer than n tokens yields exactly one window, the whole document.
C5_EmptyAndShort ==
    docs # << >> =>
        /\ Len(docs[Len(docs)]) = 0 => ngrams_out = << >>
        /\ (0 < Len(docs[Len(docs)]) /\ Len(docs[Len(docs)]) < n) =>
              ngrams_out = <<Span(Len(docs), 0, Len(docs[Len(docs)]))>>

\* an empty document came before a short document that gave one window
C5_Witness ==
    /\ Len(docs) = 2
    /\ docs[1] = << >>
    /\ Len(docs[2]) = 1
    /\ n = 2
    /\ Len(ngrams_out) = 1

----------------------------------------------------------------------------
(* The extender on its own: a passage and a rewritten copy of it, one seed  *)
(* of the two, and one call of the extender on that seed.                  *)

\* most tokens of a passage
MaxExtLen == 5
\* most tokens of the copy that differ from the passage
MaxEdits == 2

\* graphemes of the passages: two syllables and an OOV character; the
\* grapheme a rewritten token becomes
ExtGraphemes == {"x", "b", "q"}
RewriteGrapheme == "x"
ExtThresholds == { <<3, 5>>, <<1, 1>> }
ExtLenLimits == {0, 50}

\* the copies of passage u with at most MaxEdits tokens rewritten
Rewrites(u) ==
    { [i \in 1..Len(u) |-> IF i \in S THEN RewriteGrapheme ELSE u[i]] :
        S \in { T \in SUBSET (1..Len(u)) : Cardinality(T) <= MaxEdits } }

\* the seeds process() makes of documents 1 and 2 of D with n-grams of order
\* k, and those of them that join the same place of the passage and its copy
SeedsOf(D, k) ==
    Seeds(IndexCall(D, IndexCall(D, << >>, 1, k), 2, k))
SeedSet(D, k) == { SeedsOf(D, k)[i] : i \in 1..Len(SeedsOf(D, k)) }
AlignedSeeds(D, k) == { m \in SeedSet(D, k) : m.utxt.start = m.vtxt.start }

InitExtend ==
    /\ pc = "seed"
    /\ \E u \in SeqsUpTo(ExtGraphemes, MaxExtLen) \ { << >> } :
          \E v \in Rewrites(u) : docs = <<u, v>>
    /\ n \in 1..MaxN
    /\ ngrams_out = << >>
    /\ table = << >>
    /\ edges = << >>
    /\ seed \in AlignedSeeds(docs, n)
    /\ threshold \in ExtThresholds
    /\ len_limit \in ExtLenLimits
    /\ kind = "phonetic"
    /\ extended = NoMatch
    /\ todo = << >>
    /\ working = << >>
    /\ done = << >>
    /\ again = << >>
    /\ aligned = NoMatch
    /\ graph_groups = << >>
    /\ groups_rerun = << >>
    /\ variant = ""
    /\ G_new = << >>

\* extender(seed): StringDistanceExtender.__call__
ExtendSeed ==
    /\ pc = "seed"
    /\ extended' = extend(Extender(docs, threshold, len_limit, kind), seed)
    /\ pc' = "extended"
    /\ UNCHANGED <<docs, n, ngrams_out, table, edges, threshold, len_limit,
                   kind, seed, redVars, outVars>>

NextExtend == ExtendSeed

SpecExtend == InitExtend /\ [][NextExtend]_vars

\* C6: for two documents with the same tokens, none of them OOV, and a seed
\* with the same bounds in both, the extender with a threshold <= 1 returns
\* the spans [0, len(doc)) and the score 1.0, whatever the seed position and
\* the length limit.
C6_IdenticalDocsFullSpan ==
    (/\ pc = "extended"
     /\ docs[1] = docs[2]
     /\ ~HasOOV(docs[1])
     /\ seed.utxt.start = seed.vtxt.start
     /\ seed.utxt.end = seed.vtxt.end
     /\ RatGE(One, threshold))
    => /\ extended.utxt = Span(1, 0, Len(docs[1]))
       /\ extended.vtxt = Span(2, 0, Len(docs[2]))
       /\ RatEQ(extended.weight, One)

\* a seed in the middle of two identical passages of MaxExtLen tokens grew
\* to both ends under the length limit 0
C6_Witness ==
    /\ pc = "extended"
    /\ docs[1] = docs[2]
    /\ ~HasOOV(docs[1])
    /\ Len(docs[1]) = MaxExtLen
    /\ seed.utxt = Span(1, 2, 3)
    /\ seed.vtxt = Span(2, 2, 3)
    /\ len_limit = 0
    /\ extended.utxt = Span(1, 0, MaxExtLen)
    /\ extended.vtxt = Span(2, 0, MaxExtLen)

\* C7: for every match the extender returns, its score is at least the
\* threshold, or its spans are the spans of the seed.
C7_ScoreOrSeed ==
    pc = "extended" =>
        \/ RatGE(extended.weight, threshold)
        \/ extended.utxt = seed.utxt /\ extended.vtxt = seed.vtxt

\* C8: for a seed without OOV token and a threshold > -1, the spans of the
\* match LevenshteinPhoneticExtender returns hold no OOV token, in either
\* document, and the call returns a match.
C8_NoOOVInResult ==
    (/\ pc = "extended"
     /\ kind = "phonetic"
     /\ ~HasOOV(SpanTokens(docs, seed.utxt))
     /\ ~HasOOV(SpanTokens(docs, seed.vtxt))
     /\ ~RatGE(MinusOne, threshold))
    => /\ extended # NoMatch
       /\ ~HasOOV(SpanTokens(docs, extended.utxt))
       /\ ~HasOOV(SpanTokens(docs, extended.vtxt))

\* the result grew in both directions and stops at an OOV token on either
\* side, one of them in the passage only
C8_Witness ==
    /\ pc = "extended"
    /\ kind = "phonetic"
    /\ extended.utxt.start > 0
    /\ extended.utxt.start < seed.utxt.start
    /\ extended.utxt.end > seed.utxt.end
    /\ extended.utxt.end < Len(docs[1])
    /\ docs[1][extended.utxt.start] = "q"
    /\ docs[1][extended.utxt.end + 1] = "q"
    /\ docs[2][extended.vtxt.end + 1] # "q"

----------------------------------------------------------------------------
(* The reducer on its own: the seeds of one pair of documents, and the      *)
(* while loop of extend_matches one iteration at a time.                   *)

\* most tokens of a document
MaxRedLen == 4

RedGraphemes == {"x", "b"}
RedThresholds == { <<3, 5>>, <<7, 10>> }

\* the extender the reducer was given
RedExtender == Extender(docs, threshold, len_limit, kind)
\* the state of the loop
RedState == [todo |-> todo, working |-> working, done |-> done]

InitReduce ==
    /\ pc = "reduce"
    /\ \E u, v \in SeqsUpTo(RedGraphemes, MaxRedLen) \ { << >> } :
          docs = <<u, v>>
    /\ n \in 1..MaxN
    /\ ngrams_out = << >>
    /\ table = << >>
    /\ edges = SeedsOf(docs, n)
    /\ edges # << >>
    /\ threshold \in RedThresholds
    /\ len_limit = 50
    /\ kind \in {"phonetic", "text"}
    /\ seed = NoMatch
    /\ extended = NoMatch
    /\ todo = ReduceStart(edges).todo
    /\ working = << >>
    /\ done = << >>
    /\ again = << >>
    /\ aligned = NoMatch
    /\ graph_groups = << >>
    /\ groups_rerun = << >>
    /\ variant = ""
    /\ G_new = << >>

redFrame == <<docs, n, ngrams_out, table, edges, extVars, outVars>>

\* the branch that flushes the working area and extends the current match
ReduceFlush ==
    /\ pc = "reduce"
    /\ todo # << >>
    /\ OutsideWorking(todo[Len(todo)], working)
    /\ \E st \in {ReduceStep(RedExtender, RedState)} :
          todo' = st.todo /\ working' = st.working /\ done' = st.done
    /\ UNCHANGED <<pc, again, redFrame>>

\* the branch that skips a match internal to one of the working area
ReduceSkip ==
    /\ pc = "reduce"
    /\ todo # << >>
    /\ ~OutsideWorking(todo[Len(todo)], working)
    /\ \E i \in 1..Len(working) : Internal(todo[Len(todo)], working[i])
    /\ \E st \in {ReduceStep(RedExtender, RedState)} :
          todo' = st.todo /\ working' = st.working /\ done' = st.done
    /\ UNCHANGED <<pc, again, redFrame>>

\* the branch that extends the current match into the working area
ReduceKeep ==
    /\ pc = "reduce"
    /\ todo # << >>
    /\ ~OutsideWorking(todo[Len(todo)], working)
    /\ ~\E i \in 1..Len(working) : Internal(todo[Len(todo)], working[i])
    /\ \E st \in {ReduceStep(RedExtender, RedState)} :
          todo' = st.todo /\ working' = st.working /\ done' = st.done
    /\ UNCHANGED <<pc, again, redFrame>>

\* after the loop: done.extend(working), return done
ReduceReturn ==
    /\ pc = "reduce"
    /\ todo = << >>
    /\ done' = reduce_loop(RedExtender, RedState)
    /\ working' = << >>
    /\ pc' = "reduced"
    /\ UNCHANGED <<todo, again, redFrame>>

\* extend_matches is called once more, on the list it returned
ReduceAgain ==
    /\ pc = "reduced"
    /\ again' = extend_matches(done, RedExtender)
    /\ pc' = "again"
    /\ UNCHANGED <<todo, working, done, redFrame>>

NextReduce ==
    \/ ReduceFlush
    \/ ReduceSkip
    \/ ReduceKeep
    \/ ReduceReturn
    \/ ReduceAgain

SpecReduce == InitReduce /\ [][NextReduce]_vars

\* the bounds of the two spans of a match
SpanKey(m) == <<m.utxt.start, m.utxt.end, m.vtxt.start, m.vtxt.end>>
\* both spans of a lie within the spans of b
Contained(a, b) ==
    /\ b.utxt.start <= a.utxt.start /\ a.utxt.end <= b.utxt.end
    /\ b.vtxt.start <= a.vtxt.start /\ a.vtxt.end <= b.vtxt.end

\* C9: the list extend_matches returns never holds two matches with the same
\* u_span and the same v_span.
C9_NoDuplicates ==
    pc = "reduced" =>
        \A i, j \in 1..Len(done) : SpanKey(done[i]) = SpanKey(done[j]) => i = j

\* C10: in the list extend_matches returns, no match has both spans
\* contained in the spans of another match of the list with other bounds.
C10_MaximalOnly ==
    pc = "reduced" =>
        \A i, j \in 1..Len(done) :
            Contained(done[i], done[j]) => SpanKey(done[i]) = SpanKey(done[j])

\* the spans of a list of matches, in its order
SpansOf(ms) == [i \in 1..Len(ms) |-> <<ms[i].utxt, ms[i].vtxt>>]

\* C11: extend_matches, called with the same extender on the list it
\* returned, returns that list again: the same spans in the same order.
C11_Idempotent ==
    pc = "again" => SpansOf(again) = SpansOf(done)

----------------------------------------------------------------------------
(* The aligner on its own: a passage and a copy of it with one token       *)
(* dropped or rewritten, a match of the two, and one call of the aligner.  *)

\* most tokens of a passage
MaxAlnLen == 5

\* graphemes of the passages: two syllables and a punctuation mark
AlnGraphemes == {"a", "x", "."}

\* the copies of passage u: u itself, and u with one token dropped or
\* rewritten
AlnCopies(u) ==
    {u} \cup { SubSeq(u, 1, i - 1) \o SubSeq(u, i + 1, Len(u)) : i \in 1..Len(u) }
        \cup { [j \in 1..Len(u) |-> IF j = i THEN RewriteGrapheme ELSE u[j]] :
                 i \in 1..Len(u) }

\* the spans of document d that leave out at most its first and its last token
AlnSpans(D, d) ==
    { sp \in { Span(d, s, e) : s \in {0, 1},
                               e \in {Len(D[d]) - 1, Len(D[d])} } :
        sp.start < sp.end }

AlnMatches(D) ==
    { Match(1, 2, us, vs, One, << >>, << >>) :
        us \in AlnSpans(D, 1), vs \in AlnSpans(D, 2) }

InitAlign ==
    /\ pc = "match"
    /\ \E u \in SeqsUpTo(AlnGraphemes, MaxAlnLen) \ { << >> } :
          \E v \in AlnCopies(u) \ { << >> } : docs = <<u, v>>
    /\ n = 1
    /\ ngrams_out = << >>
    /\ table = << >>
    /\ edges = << >>
    /\ seed \in AlnMatches(docs)
    /\ threshold = <<7, 10>>
    /\ len_limit = 50
    /\ kind = "phonetic"
    /\ extended = NoMatch
    /\ todo = << >>
    /\ working = << >>
    /\ done = << >>
    /\ again = << >>
    /\ aligned = NoMatch
    /\ graph_groups = << >>
    /\ groups_rerun = << >>
    /\ variant = ""
    /\ G_new = << >>

\* aligner(seed): SmithWatermanAligner.__call__ returns a match
AlignMatch ==
    /\ pc = "match"
    /\ ~align(docs, seed).err
    /\ aligned' = align(docs, seed).match
    /\ pc' = "aligned"
    /\ UNCHANGED <<docs, n, ngrams_out, table, edges, extVars, redVars,
                   graph_groups, groups_rerun, variant, G_new>>

\* aligner(seed): SmithWatermanAligner.__call__ raises
AlignRaise ==
    /\ pc = "match"
    /\ align(docs, seed).err
    /\ pc' = "error"
    /\ UNCHANGED <<docs, n, ngrams_out, table, edges, extVars, redVars,
                   outVars>>

NextAlign ==
    \/ AlignMatch
    \/ AlignRaise

SpecAlign == InitAlign /\ [][NextAlign]_vars

\* C12: for every match the aligner returns, au and av have the same length,
\* and when they are not empty the first and the last entry of both are
\* alphanumeric tokens, neither the gap symbol nor punctuation.
C12_AlignedEnds ==
    pc = "aligned" =>
        /\ Len(aligned.au) = Len(aligned.av)
        /\ aligned.au # << >> =>
              /\ isalnum(aligned.au[1]) /\ isalnum(aligned.av[1])
              /\ isalnum(aligned.au[Len(aligned.au)])
              /\ isalnum(aligned.av[Len(aligned.av)])

\* the alignment holds a gap, and the token after the returned u span, a
\* punctuation mark inside the span of the match, was trimmed
C12_Witness ==
    /\ pc = "aligned"
    /\ SeqHas(aligned.av, gap_char)
    /\ aligned.utxt.end < seed.utxt.end
    /\ docs[1][aligned.utxt.end + 1] = "."

\* C13: the aligner never raises; when the alignment is empty (no positive
\* region, or every aligned position trimmed) it returns a match with empty
\* au and av and score 0.
C13_EmptyAlignmentReturned ==
    /\ pc # "error"
    /\ (pc = "aligned" /\ aligned.au = << >>) =>
          (aligned.av = << >> /\ aligned.weight[1] = 0)

----------------------------------------------------------------------------
(* The match graph on its own: a few short documents, indexed and seeded   *)
(* as process() does, then extend(), align() and group() on the graph.     *)

\* most documents of the graph, and most tokens of each
MaxGraphDocs == 3
MaxGraphLen == 2

\* graphemes of the documents: two graphic variants and another syllable
GraphGraphemes == {"a", "A", "x"}
GraphThresholds == { <<1, 2>>, <<1, 1>> }

\* the index after documents 1..d of D went through nlp.pipe
RECURSIVE IndexDocs(_, _, _)
IndexDocs(D, d, k) ==
    IF d = 0 THEN << >> ELSE IndexCall(D, IndexDocs(D, d - 1, k), d, k)

\* the seeds process() adds to the graph for the documents D
SeedsOfDocs(D, k) == Seeds(IndexDocs(D, Len(D), k))

InitGraph ==
    /\ pc = "seeded"
    /\ \E k \in 2..MaxGraphDocs :
          docs \in [1..k -> SeqsUpTo(GraphGraphemes, MaxGraphLen) \ { << >> }]
    /\ n \in 1..MaxN
    /\ ngrams_out = << >>
    /\ table = IndexDocs(docs, Len(docs), n)
    /\ edges = Seeds(table)
    /\ threshold = <<7, 10>>
    /\ len_limit = 50
    /\ kind = "phonetic"
    /\ seed = NoMatch
    /\ extended = NoMatch
    /\ todo = << >>
    /\ working = << >>
    /\ done = << >>
    /\ again = << >>
    /\ aligned = NoMatch
    /\ graph_groups = << >>
    /\ groups_rerun = << >>
    /\ variant = ""
    /\ G_new = << >>

graphFrame == <<docs, n, ngrams_out, table, kind, seed, extended, redVars,
                aligned, variant, G_new>>

\* graph.extend(LevenshteinPhoneticExtender(threshold, len_limit))
ExtendGraph ==
    /\ pc = "seeded"
    /\ \E thr \in GraphThresholds :
          /\ threshold' = thr
          /\ edges' = GraphExtend(edges, Len(docs),
                                  Extender(docs, thr, len_limit, kind))
    /\ pc' = "extended"
    /\ UNCHANGED <<len_limit, graph_groups, groups_rerun, graphFrame>>

\* graph.align(SmithWatermanPhoneticAligner()); an error leaves the graph as
\* it was
AlignGraph ==
    /\ pc \in {"seeded", "extended"}
    /\ \E res \in {GraphAlign(docs, edges, Len(docs))} :
           IF res.err THEN pc' = "error" /\ UNCHANGED edges
           ELSE edges' = res.edges /\ pc' = "aligned"
    /\ UNCHANGED <<threshold, len_limit, graph_groups, groups_rerun,
                   graphFrame>>

\* graph.group(), in a process with one of the hash seeds
GroupGraph ==
    /\ pc \in {"seeded", "aligned"}
    /\ \E h \in HashSeeds : graph_groups' = group(edges, Len(docs), h)
    /\ pc' = "grouped"
    /\ UNCHANGED <<edges, threshold, len_limit, groups_rerun, graphFrame>>

\* a second run on the same input, in another process: its groups
GroupGraphAgain ==
    /\ pc = "grouped"
    /\ \E h \in HashSeeds : groups_rerun' = group(edges, Len(docs), h)
    /\ pc' = "regrouped"
    /\ UNCHANGED <<edges, threshold, len_limit, graph_groups, graphFrame>>

NextGraph ==
    \/ ExtendGraph
    \/ AlignGraph
    \/ GroupGraph
    \/ GroupGraphAgain

SpecGraph == InitGraph /\ [][NextGraph]_vars

\* C14: MatchGraph.extend works pair by pair: after the call, the edges
\* between any two documents are the list extend_matches returns, with the
\* given extender, for the edges that were between those two documents
\* before the call, whatever the edges of the other pairs.
C14_ExtendPairByPair ==
    [][(pc = "seeded" /\ pc' = "extended") =>
        \A u, v \in 1..Len(docs) :
            u < v =>
                EdgesBetween(edges', u, v) =
                    extend_matches(EdgesBetween(edges, u, v),
                                   Extender(docs, threshold', len_limit',
                                            kind))]_vars

\* after extend(), two pairs of documents have edges, and the graph has
\* fewer edges than it was seeded with
C14_Witness ==
    /\ pc = "extended"
    /\ \E u, v, w \in 1..Len(docs) :
          /\ u < v /\ v < w
          /\ EdgesBetween(edges, u, v) # << >>
          /\ EdgesBetween(edges, v, w) # << >>
    /\ Len(edges) < Len(SeedsOfDocs(docs, n))

\* the key of the anchor of a group
AnchorKey(g) == <<g.doc, g.start, g.end>>

\* C15: after group(), every member of every group has one of its two
\* endpoint keys equal to the anchor key of the group.
C15_GroupClosure ==
    pc = "grouped" =>
        \A i \in 1..Len(graph_groups) :
            \A m \in graph_groups[i].matches :
                AnchorKey(graph_groups[i]) \in {u_key(m), v_key(m)}

\* two matches share an endpoint key
SharesKey(a, b) == {u_key(a), v_key(a)} \cap {u_key(b), v_key(b)} # {}

\* the matches of ms joined to those of acc by a chain of shared keys
RECURSIVE ShareClosure(_, _)
ShareClosure(ms, acc) ==
    IF { m \in ms : \E a \in acc : SharesKey(a, m) } \subseteq acc THEN acc
    ELSE ShareClosure(ms, acc \cup { m \in ms : \E a \in acc : SharesKey(a, m) })

\* C16: after group(), the groups are the connected components of the
\* shares-an-endpoint relation over the matches of the graph, each component
\* once: every match is a member of exactly one group, and a group of one
\* member is a match that shares no key with any other match.
C16_GroupsAreComponents ==
    pc = "grouped" =>
        /\ { graph_groups[i].matches : i \in 1..Len(graph_groups) } =
               { ShareClosure(MatchSet(edges, Len(docs)), {m}) :
                   m \in MatchSet(edges, Len(docs)) }
        /\ \A i, j \in 1..Len(graph_groups) :
               graph_groups[i].matches = graph_groups[j].matches => i = j

\* C17: two runs on the same input give the same output: the second run
\* ends with the same groups, in the same order and with the same anchors,
\* as the first run (the matches of the graph are those of the first run).
C17_Deterministic ==
    pc = "regrouped" => groups_rerun = graph_groups

\* the span is not empty and lies inside its document
ValidSpan(D, sp) == 0 <= sp.start /\ sp.start < sp.end /\ sp.end <= Len(D[sp.doc])

\* C20: every span of every match, at every stage, satisfies
\* 0 <= start < end <= len(doc); here for the aligner: the spans of the
\* match it is given and of the match it returns are non-empty and inside
\* their documents.
C20_SpansValid ==
    /\ ValidSpan(docs, seed.utxt) /\ ValidSpan(docs, seed.vtxt)
    /\ pc = "aligned" =>
           ValidSpan(docs, aligned.utxt) /\ ValidSpan(docs, aligned.vtxt)

----------------------------------------------------------------------------
(* The variant tests on their own: two passages of the same length, and    *)
(* one call of are_graphic_variants on the tokens of the first passage or  *)
(* one call of has_variant on the match of the two passages.               *)

\* most tokens of a passage
MaxVarLen == 3

\* graphemes of the passages: two variants of one syllable, another
\* syllable, a character without a reading, and a punctuation mark
VarGraphemes == {"a", "A", "x", "q", "."}

InitVariant ==
    /\ pc = "tokens"
    /\ \E k \in 1..MaxVarLen :
          \E u \in SeqsOfLen(VarGraphemes, k), v \in SeqsOfLen(VarGraphemes, k) :
              /\ docs = <<u, v>>
              /\ seed = Match(1, 2, Span(1, 0, k), Span(2, 0, k), One,
                              << >>, << >>)
    /\ n = 1
    /\ ngrams_out = << >>
    /\ table = << >>
    /\ edges = << >>
    /\ threshold = <<7, 10>>
    /\ len_limit = 50
    /\ kind = "phonetic"
    /\ extended = NoMatch
    /\ todo = << >>
    /\ working = << >>
    /\ done = << >>
    /\ again = << >>
    /\ aligned = NoMatch
    /\ graph_groups = << >>
    /\ groups_rerun = << >>
    /\ variant = ""
    /\ G_new = << >>

variantFrame == <<docs, n, ngrams_out, table, edges, extVars, redVars,
                  aligned, graph_groups, groups_rerun, G_new>>

\* g2p.are_graphic_variants(*tokens) on the tokens of the first passage
AreGraphicVariants ==
    /\ pc = "tokens"
    /\ variant' = IF are_graphic_variants(docs[1]) THEN "TRUE" ELSE "FALSE"
    /\ pc' = "variants"
    /\ UNCHANGED variantFrame

\* g2p.has_variant(match) on the match of the two passages
HasVariant ==
    /\ pc = "tokens"
    /\ variant' = has_variant(docs, seed)
    /\ pc' = "has_variant"
    /\ UNCHANGED variantFrame

NextVariant == AreGraphicVariants \/ HasVariant

SpecVariant == InitVariant /\ [][NextVariant]_vars

\* the token is voiced and has a sound-table entry
HasEntry(t) == (is_alpha(t) \/ like_num(t)) /\ t \in DOMAIN sound_table

\* C18: for two or more tokens, are_graphic_variants answers true exactly
\* when every token has a sound-table entry, all of them have the same
\* phoneme tuple, and their texts are not all identical.
C18_VariantsIff ==
    (pc = "variants" /\ Len(docs[1]) >= 2) =>
        (variant = "TRUE" <=>
            /\ \A i \in 1..Len(docs[1]) : HasEntry(docs[1][i])
            /\ \A i, j \in 1..Len(docs[1]) :
                   _select(sound_table[docs[1][i]]) =
                       _select(sound_table[docs[1][j]])
            /\ \E i, j \in 1..Len(docs[1]) : docs[1][i] # docs[1][j])

\* the two tokens have sound-table entries with the same phonemes and
\* differ in text
VariantPair(t1, t2) ==
    /\ HasEntry(t1)
    /\ HasEntry(t2)
    /\ _select(sound_table[t1]) = _select(sound_table[t2])
    /\ t1 # t2

\* C19: for a match of two spans of the same length, has_variant answers
\* true exactly when at some index the two tokens are graphic variants of
\* each other; otherwise it answers false (identical passages, passages
\* that differ only in sound or in characters without a reading).
C19_HasVariantIff ==
    (pc = "has_variant" /\ SpanLen(seed.utxt) = SpanLen(seed.vtxt)) =>
        /\ variant \in {"TRUE", "FALSE"}
        /\ variant = "TRUE" <=>
               \E i \in 1..SpanLen(seed.utxt) :
                   VariantPair(SpanTokens(docs, seed.utxt)[i],
                               SpanTokens(docs, seed.vtxt)[i])

\* has_variant answered true for passages whose first tokens are not
\* variants and which hold a character without a reading
C19_Witness ==
    /\ pc = "has_variant"
    /\ variant = "TRUE"
    /\ SpanLen(seed.utxt) = MaxVarLen
    /\ ~VariantPair(docs[1][1], docs[2][1])
    /\ \E i \in 1..Len(docs[1]) :
          is_alpha(docs[1][i]) /\ is_token_oov(docs[1][i])

----------------------------------------------------------------------------
(* The run of process() without --all on two documents: a passage and a    *)
(* copy of it with some characters replaced.  The seeds are filtered by    *)
(* has_variant, extended with the default threshold and aligned.           *)

\* most tokens of a passage
MaxProcLen == 5

\* graphemes of the passage: three syllables and a punctuation mark
ProcGraphemes == {"a", "y", "b", "."}

\* the character written in place of t in the copy: a variant of "a", a
\* character of another sound for "y"
Replacement(t) == IF t = "a" THEN "A" ELSE IF t = "y" THEN "2" ELSE t

\* the copies of passage u
ProcCopies(u) ==
    { [i \in 1..Len(u) |-> IF i \in S THEN Replacement(u[i]) ELSE u[i]] :
        S \in SUBSET (1..Len(u)) }

InitProcess ==
    /\ pc = "seeded"
    /\ \E u \in SeqsUpTo(ProcGraphemes, MaxProcLen) \ { << >> } :
          \E v \in ProcCopies(u) : docs = <<u, v>>
    /\ n \in 1..MaxN
    /\ ngrams_out = << >>
    /\ table = IndexDocs(docs, Len(docs), n)
    /\ edges = Seeds(table)
    /\ threshold = <<7, 10>>
    /\ len_limit = 50
    /\ kind = "phonetic"
    /\ seed = NoMatch
    /\ extended = NoMatch
    /\ todo = << >>
    /\ working = << >>
    /\ done = << >>
    /\ again = << >>
    /\ aligned = NoMatch
    /\ graph_groups = << >>
    /\ groups_rerun = << >>
    /\ variant = ""
    /\ G_new = << >>

processFrame == <<docs, n, ngrams_out, table, extVars, redVars, aligned,
                  graph_groups, groups_rerun, variant>>

\* if not args["--all"]: graph.filter(has_variant)
FilterVariants ==
    /\ pc = "seeded"
    /\ \E ms \in {GraphMatches(edges, Len(docs))} :
           IF \E i \in 1..Len(ms) : has_variant(docs, ms[i]) = "IndexError"
           THEN pc' = "error" /\ UNCHANGED edges
           ELSE /\ edges' = GraphFilter(edges, Len(docs),
                            { ms[i] : i \in { j \in 1..Len(ms) :
                                          has_variant(docs, ms[j]) = "TRUE" } })
                /\ pc' = "variants"
    /\ UNCHANGED <<G_new, processFrame>>

\* graph.extend(LevenshteinPhoneticExtender(threshold, len_limit))
ExtendVariants ==
    /\ pc = "variants"
    /\ edges' = GraphExtend(edges, Len(docs),
                            Extender(docs, threshold, len_limit, kind))
    /\ pc' = "extended"
    /\ UNCHANGED <<G_new, processFrame>>

\* the matches MatchGraph.align aligns, in its order: pair by pair
AlignQueue(E, N) ==
    Concat([p \in 1..Len(NodePairs(N)) |->
                EdgesBetween(E, NodePairs(N)[p][1], NodePairs(N)[p][2])])

\* graph.align(SmithWatermanPhoneticAligner()) begins: G is an empty copy
AlignBegin ==
    /\ pc = "extended"
    /\ G_new' = << >>
    /\ pc' = "aligning"
    /\ UNCHANGED <<edges, processFrame>>

\* an align() that puts each aligned match into the graph at once
AlignNextInPlace ==
    /\ pc = "aligning"
    /\ Len(G_new) < Len(AlignQueue(edges, Len(docs)))
    /\ \E res \in {align(docs, AlignQueue(edges, Len(docs))[Len(G_new) + 1])} :
           IF res.err THEN pc' = "error" /\ UNCHANGED <<G_new, edges>>
           ELSE /\ G_new' = Append(G_new, res.match)
                /\ edges' = [edges EXCEPT ![Len(G_new) + 1] = res.match]
                /\ UNCHANGED pc
    /\ UNCHANGED processFrame

\* the next match is aligned and added to G, or the aligner raises and the
\* call ends
AlignNext ==
    /\ pc = "aligning"
    /\ Len(G_new) < Len(AlignQueue(edges, Len(docs)))
    /\ \E res \in {align(docs, AlignQueue(edges, Len(docs))[Len(G_new) + 1])} :
           IF res.err THEN pc' = "error" /\ UNCHANGED G_new
           ELSE G_new' = Append(G_new, res.match) /\ UNCHANGED pc
    /\ UNCHANGED <<edges, processFrame>>

\* self._G = G
AlignSwap ==
    /\ pc = "aligning"
    /\ Len(G_new) = Len(AlignQueue(edges, Len(docs)))
    /\ edges' = G_new
    /\ pc' = "aligned"
    /\ UNCHANGED <<G_new, processFrame>>

NextProcess ==
    \/ FilterVariants
    \/ ExtendVariants
    \/ AlignBegin
    \/ AlignNext
    \/ AlignSwap

SpecProcess == InitProcess /\ [][NextProcess]_vars

\* C25: the stages of MatchGraph leave the nodes (the documents) as they
\* are and replace the edges wholesale: while align() is filling the new
\* graph, and when the aligner raises midway, the graph holds exactly the
\* edges it had before the call; the step that ends a stage puts the whole
\* result of the stage in their place.
C25_WholesaleSwap ==
    [][/\ docs' = docs
       /\ (pc' \in {"aligning", "error"}) => edges' = edges
       /\ (pc = "aligning" /\ pc' = "aligned") =>
              edges' = GraphAlign(docs, edges, Len(docs)).edges
       /\ (pc = "variants" /\ pc' = "extended") =>
              edges' = GraphExtend(edges, Len(docs),
                                   Extender(docs, threshold, len_limit, kind))
       /\ (pc = "seeded" /\ pc' = "variants") =>
              edges' = SelectSeq(GraphMatches(edges, Len(docs)),
                                 LAMBDA m : has_variant(docs, m) = "TRUE")]_vars

\* the aligner raised while align() was filling the new graph, and the
\* graph holds the extended match it held before the call
C25_Witness ==
    /\ pc = "error"
    /\ edges # << >>
    /\ edges = GraphExtend(SelectSeq(Seeds(table),
                                     LAMBDA m : has_variant(docs, m) = "TRUE"),
                           Len(docs), Extender(docs, threshold, len_limit, kind))
    /\ \A i \in 1..Len(edges) : edges[i].au = << >>

\* some pair of corresponding tokens of the match is a pair of variants:
\* tokens at the same index of the two spans, or of the two aligned
\* sequences
ContainsVariant(D, m) ==
    \/ \E i \in 1..Min2(SpanLen(m.utxt), SpanLen(m.vtxt)) :
           VariantPair(SpanTokens(D, m.utxt)[i], SpanTokens(D, m.vtxt)[i])
    \/ \E i \in 1..Min2(Len(m.au), Len(m.av)) : VariantPair(m.au[i], m.av[i])

----------------------------------------------------------------------------
(* Properties of one call of the extender, continued *)

\* the extender of the call
SeedExtender == Extender(docs, threshold, len_limit, kind)

\* the score of the seed grown forward (backward) by k tokens on both sides
FwdScoreAt(k) ==
    _score(SeedExtender, Span(1, seed.utxt.start, seed.utxt.end + k),
           Span(2, seed.vtxt.start, seed.vtxt.end + k), FALSE)
RevScoreAt(k) ==
    _score(SeedExtender, Span(1, seed.utxt.start - k, seed.utxt.end),
           Span(2, seed.vtxt.start - k, seed.vtxt.end), TRUE)

\* a growth step is made after k steps
FwdCanStep(k) ==
    /\ seed.utxt.end + k < Len(docs[1])
    /\ seed.vtxt.end + k < Len(docs[2])
    /\ RatGE(FwdScoreAt(k), threshold)
RevCanStep(k) ==
    /\ seed.utxt.start - k > 0
    /\ seed.vtxt.start - k > 0
    /\ RatGE(RevScoreAt(k), threshold)

\* the number of growth steps of each pass
FwdSteps == CHOOSE K \in 0..MaxExtLen :
                ~FwdCanStep(K) /\ \A j \in 0..(K - 1) : FwdCanStep(j)
RevSteps == CHOOSE K \in 0..MaxExtLen :
                ~RevCanStep(K) /\ \A j \in 0..(K - 1) : RevCanStep(j)

\* the last step whose score was not lower than the score before it; 0 when
\* every step lowered the score
LastOf(S) == CHOOSE j \in S : \A i \in S : i <= j
FwdKept ==
    LastOf({0} \cup { j \in 1..FwdSteps : RatGE(FwdScoreAt(j), FwdScoreAt(j - 1)) })
RevKept ==
    LastOf({0} \cup { j \in 1..RevSteps : RatGE(RevScoreAt(j), RevScoreAt(j - 1)) })

\* C22: each pass trims back to the most recent non-decreasing score: the
\* end the forward pass returns is the end reached by the last growth step
\* whose score was not lower than the score before it (the seed's end when
\* every step lowered the score), an equal score counting as not lower; the
\* backward pass does the same for the start.
C22_TrimToLastRise ==
    pc = "extended" =>
        /\ extended.utxt.end = seed.utxt.end + FwdKept
        /\ extended.vtxt.end = seed.vtxt.end + FwdKept
        /\ extended.utxt.start = seed.utxt.start - RevKept
        /\ extended.vtxt.start = seed.vtxt.start - RevKept

\* the forward pass made a step of equal score, then steps of lower score,
\* and was trimmed back to the equal step; the backward pass was trimmed
\* back to the seed
C22_Witness ==
    /\ pc = "extended"
    /\ 0 < FwdKept /\ FwdKept < FwdSteps
    /\ RatEQ(FwdScoreAt(FwdKept), FwdScoreAt(FwdKept - 1))
    /\ extended.utxt.end = seed.utxt.end + FwdKept
    /\ RevSteps > 0 /\ RevKept = 0
    /\ extended.utxt.start = seed.utxt.start

----------------------------------------------------------------------------
(* Properties of the reducer, continued *)

\* the step takes the current match off todo
ReducerStep == pc = "reduce" /\ todo # << >> /\ todo' # todo

\* the step moves the working area to the output and starts a new one
Flushes == done' = done \o working /\ Len(working') = 1

\* the current match starts at or after the u end of every working match
StartsAfterAll(current, ws) ==
    \A i \in 1..Len(ws) : current.utxt.start >= ws[i].utxt.end

\* C23: the reducer flushes the working area to the output exactly when the
\* area is empty or the current seed starts, in u, at or after the rightmost
\* u end among all the working matches; a seed that starts before the u end
\* of some working match never flushes them.
C23_FlushRule ==
    [][ReducerStep =>
          (Flushes <=> (working = << >>
                            \/ StartsAfterAll(todo[Len(todo)], working)))]_vars

\* the matches still to do are taken in ascending order of their keys: the
\* queue is popped from its end and no match of it is smaller than a later
\* one
TakenAscending ==
    pc = "reduce" =>
        \A i \in 1..(Len(todo) - 1) : ~MatchLess(todo[i], todo[i + 1])

\* C24 as claimed: the reducer takes the seeds in ascending (u.start, u.end,
\* v.start, v.end) order, and the list extend_matches returns is sorted
\* ascending by (u.start, u.end, v.start, v.end).
C24_OutputSorted ==
    /\ TakenAscending
    /\ pc = "reduced" =>
           \A i \in 1..(Len(done) - 1) : ~MatchLess(done[i + 1], done[i])

\* out is made of the extensions of some of the seeds, in the order of the
\* seeds
RECURSIVE InSeedOrder(_, _)
InSeedOrder(out, seeds) ==
    IF out = << >> THEN TRUE
    ELSE IF seeds = << >> THEN FALSE
    ELSE IF Head(out) = extend(RedExtender, Head(seeds))
    THEN InSeedOrder(Tail(out), Tail(seeds))
    ELSE InSeedOrder(out, Tail(seeds))

\* C24, amended: the reducer takes the seeds in ascending (u.start, u.end,
\* v.start, v.end) order, and the list extend_matches returns holds the
\* extensions of the seeds that were not skipped, in the order in which
\* those seeds were taken.
C24_OutputInSeedOrder ==
    /\ TakenAscending
    /\ pc = "reduced" => InSeedOrder(done, Sorted(edges))

\* the returned list holds two matches of which the later one has the
\* smaller key
C24_Witness ==
    /\ pc = "reduced"
    /\ \E i \in 1..(Len(done) - 1) : MatchLess(done[i + 1], done[i])
    /\ InSeedOrder(done, Sorted(edges))

----------------------------------------------------------------------------
(* Properties of the groups, continued *)

\* the endpoint keys of the members of a group, and the number of members
\* that use a key
GroupKeys(g) == { u_key(m) : m \in g.matches } \cup { v_key(m) : m \in g.matches }
UseCount(g, key) ==
    Cardinality({ m \in g.matches : key \in {u_key(m), v_key(m)} })

\* the aligned texts of the members of a group at an endpoint key
TextsAt(g, key) ==
    { m.au : m \in { x \in g.matches : u_key(x) = key } }
        \cup { m.av : m \in { x \in g.matches : v_key(x) = key } }

\* C26: the anchor of every group is the endpoint key used by the largest
\* number of its members; among the endpoint keys used by equally many
\* members, the anchor is one whose aligned text is lexicographically
\* smallest.
C26_AnchorMostUsed ==
    pc = "grouped" =>
        \A i \in 1..Len(graph_groups) :
            \A key \in GroupKeys(graph_groups[i]) :
                /\ UseCount(graph_groups[i], AnchorKey(graph_groups[i])) >=
                       UseCount(graph_groups[i], key)
                /\ UseCount(graph_groups[i], AnchorKey(graph_groups[i])) =
                       UseCount(graph_groups[i], key)
                   => \E ta \in TextsAt(graph_groups[i],
                                        AnchorKey(graph_groups[i])) :
                         \A tk \in TextsAt(graph_groups[i], key) :
                             ~TextLess(tk, ta)

\* C27: the reducer loses no seed: for every seed given to extend_matches,
\* some match of the returned list contains the seed's u span in its u span
\* and the seed's v span in its v span.
C27_NoSeedLost ==
    pc = "reduced" =>
        \A i \in 1..Len(edges) :
            \E j \in 1..Len(done) : Contained(edges[i], done[j])

----------------------------------------------------------------------------
(* Properties of one call of the aligner, continued *)

\* an aligned sequence without its gap symbols
WithoutGaps(a) == SelectSeq(a, LAMBDA t : t # gap_char)

\* C28: in every match the aligner returns, au without its gap symbols is
\* the sequence of the token texts of the returned u span, and av without
\* its gap symbols is that of the returned v span.
C28_AlignedTextIsSpan ==
    pc = "aligned" =>
        /\ WithoutGaps(aligned.au) = SpanTokens(docs, aligned.utxt)
        /\ WithoutGaps(aligned.av) = SpanTokens(docs, aligned.vtxt)

\* the two aligned entries are tokens that the scorer counts as a match
MatchingPair(a, b) ==
    a # gap_char /\ b # gap_char /\ DefaultScorer(TokenSeq(a), TokenSeq(b)) = 1

\* C29: the length-normalized score of every match the aligner returns is
\* at most 1.0, and it is 1.0 only when every aligned position pairs two
\* matching symbols; trimming the ends never lifts it above 1.0.
C29_ScoreAtMostOne ==
    pc = "aligned" =>
        /\ RatGE(One, aligned.weight)
        /\ RatEQ(aligned.weight, One) =>
               \A i \in 1..Len(aligned.au) :
                   MatchingPair(aligned.au[i], aligned.av[i])

----------------------------------------------------------------------------
(* Properties of the extender inside the reducer *)

\* match b is match a grown by the same amount on both sides: it contains
\* both spans of a, its spans have one length, and its u span lies as far
\* from its v span as that of a
GrownEqually(a, b) ==
    /\ Contained(a, b)
    /\ SpanLen(b.utxt) = SpanLen(b.vtxt)
    /\ b.utxt.start - b.vtxt.start = a.utxt.start - a.vtxt.start

\* the step extends the current match and puts the result last in the
\* working area
ExtendsCurrent == ReducerStep /\ working' # working

\* C30: the extender only grows a match, by the same amount on both sides:
\* for a match whose spans have equal length, the returned u span contains
\* the given u span, the returned v span contains the given v span, the
\* two returned spans have equal length, and u.start - v.start is as given.
C30_GrowsEqually ==
    [][(/\ ExtendsCurrent
        /\ SpanLen(todo[Len(todo)].utxt) = SpanLen(todo[Len(todo)].vtxt))
       => GrownEqually(todo[Len(todo)], working'[Len(working')])]_vars

\* the working area holds a match that joins two different places of the
\* documents and is longer than a seed, above a seed still to be taken
C30_Witness ==
    /\ pc = "reduce"
    /\ \E i \in 1..Len(working) :
          /\ working[i].utxt.start # working[i].vtxt.start
          /\ SpanLen(working[i].utxt) > n
          /\ SpanLen(working[i].utxt) = SpanLen(working[i].vtxt)
          /\ \E j \in 1..Len(edges) :
                /\ GrownEqually(edges[j], working[i])
                /\ edges[j].utxt.start > working[i].utxt.start
                /\ edges[j].utxt.end < working[i].utxt.end

====
